---------------------------- MODULE Spec2Model ----------------------------
(***************************************************************************)
(* A model of the CHIP-8 core of chip8_core/src/lib.rs: the Emulator       *)
(* struct, its host operations (new, reset, load, keypress, tick,          *)
(* tick_timers) and the fetch / decode_and_execute cycle.                  *)
(*                                                                         *)
(* A Rust panic (an index out of bounds, an arithmetic overflow under      *)
(* overflow checks, unimplemented!) is modelled by the field "fault": the  *)
(* operation stops where the panic happens, keeping what it had written,   *)
(* and no operation is taken from a faulted emulator.                      *)
(*                                                                         *)
(* The two large arrays are held in a lossless compact form: ram, a        *)
(* [u8; 4096], is the function from the addresses of its nonzero bytes to  *)
(* those bytes (RamRead gives 0 elsewhere), and screen, a [bool; 2048], is *)
(* the set of the indices of its true entries.  Every access goes through  *)
(* the bounds check of the array it stands for.                            *)
(***************************************************************************)
EXTENDS Integers, Sequences, FiniteSets, TLC

SCREEN_WIDTH == 64
SCREEN_HEIGHT == 32
RAM_SIZE == 4096
NUM_REGS == 16
STACK_SIZE == 16
NUM_KEYS == 16
START_ADDR == 512
FONTSET_SIZE == 80

FONTSET ==
  << 240, 144, 144, 144, 240,
      32,  96,  32,  32, 112,
     240,  16, 240, 128, 240,
     240,  16, 240,  16, 240,
     144, 144, 240,  16,  16,
     240, 128, 240,  16, 240,
     240, 128, 240, 144, 240,
     240,  16,  32,  64,  64,
     240, 144, 240, 144, 240,
     240, 144, 240,  16, 240,
     240, 144, 240, 144, 144,
     224, 144, 224, 144, 224,
     240, 128, 128, 128, 240,
     224, 144, 144, 144, 224,
     240, 128, 240, 128, 240,
     240, 128, 240, 128, 128 >>

\* Widths of the integer types of the Emulator struct.
U8 == 256
U16 == 65536

VARIABLES pc, ram, screen, v_reg, i_reg, sp, stack, keys, delay_t, sound_t,
          fault, last, prev, calls

vars == << pc, ram, screen, v_reg, i_reg, sp, stack, keys, delay_t, sound_t,
           fault, last, prev, calls >>

--------------------------------------------------------------------------
(* Faults: the panics of the code. *)

NoFault == [kind |-> "none", word |-> 0]
IndexFault == [kind |-> "index out of bounds", word |-> 0]
OverflowFault == [kind |-> "arithmetic overflow", word |-> 0]
Unimplemented(op) == [kind |-> "not implemented", word |-> op]

Panic(e, f) == [e EXCEPT !.fault = f]
Ok(e) == e.fault = NoFault

--------------------------------------------------------------------------
(* Bit operations on u8 values. *)

Bit(v, i) == (v \div (2 ^ i)) % 2

RECURSIVE BitAndFrom(_, _, _)
BitAndFrom(a, b, i) ==
  IF i = 8 THEN 0
  ELSE (Bit(a, i) * Bit(b, i)) * (2 ^ i) + BitAndFrom(a, b, i + 1)

RECURSIVE BitOrFrom(_, _, _)
BitOrFrom(a, b, i) ==
  IF i = 8 THEN 0
  ELSE (IF Bit(a, i) + Bit(b, i) > 0 THEN 1 ELSE 0) * (2 ^ i) + BitOrFrom(a, b, i + 1)

RECURSIVE BitXorFrom(_, _, _)
BitXorFrom(a, b, i) ==
  IF i = 8 THEN 0
  ELSE ((Bit(a, i) + Bit(b, i)) % 2) * (2 ^ i) + BitXorFrom(a, b, i + 1)

BitAnd(a, b) == BitAndFrom(a, b, 0)
BitOr(a, b) == BitOrFrom(a, b, 0)
BitXor(a, b) == BitXorFrom(a, b, 0)

\* u8::overflowing_add / overflowing_sub: the wrapped value and the overflow bit.
overflowing_add(a, b) == [val |-> (a + b) % U8, of |-> a + b >= U8]
overflowing_sub(a, b) == [val |-> (a - b + U8) % U8, of |-> a < b]

--------------------------------------------------------------------------
(* Emulator::new and Emulator::reset *)

\* ram[a] and "ram[a] = val" for a < RAM_SIZE, on the compact form of ram.
RamRead(r, a) == IF a \in DOMAIN r THEN r[a] ELSE 0
RamWrite(r, a, val) ==
  IF val = 0 THEN [b \in DOMAIN r \ {a} |-> r[b]]
  ELSE [b \in DOMAIN r \cup {a} |-> IF b = a THEN val ELSE r[b]]

\* [false; SCREEN_WIDTH * SCREEN_HEIGHT]
BlankScreen == {}

\* ram[..FONTSET_SIZE].copy_from_slice(&FONTSET) on a zeroed ram
FontRam ==
  [a \in {b \in 0 .. FONTSET_SIZE - 1 : FONTSET[b + 1] # 0} |-> FONTSET[a + 1]]

new ==
  [ pc |-> START_ADDR,
    ram |-> FontRam,
    screen |-> BlankScreen,
    v_reg |-> [r \in 0 .. NUM_REGS - 1 |-> 0],
    i_reg |-> 0,
    sp |-> 0,
    stack |-> [s \in 0 .. STACK_SIZE - 1 |-> 0],
    keys |-> [k \in 0 .. NUM_KEYS - 1 |-> FALSE],
    delay_t |-> 0,
    sound_t |-> 0,
    fault |-> NoFault ]

\* A reset that rewinds the stack pointer and leaves the stack's slots.
reset_keeps_stack(e) ==
  [ e EXCEPT
      !.pc = START_ADDR,
      !.ram = FontRam,
      !.screen = BlankScreen,
      !.v_reg = [r \in 0 .. NUM_REGS - 1 |-> 0],
      !.i_reg = 0,
      !.sp = 0,
      !.keys = [k \in 0 .. NUM_KEYS - 1 |-> FALSE],
      !.delay_t = 0,
      !.sound_t = 0 ]

reset(e) ==
  [ e EXCEPT
      !.pc = START_ADDR,
      !.ram = FontRam,
      !.screen = BlankScreen,
      !.v_reg = [r \in 0 .. NUM_REGS - 1 |-> 0],
      !.i_reg = 0,
      !.sp = 0,
      !.stack = [s \in 0 .. STACK_SIZE - 1 |-> 0],
      !.keys = [k \in 0 .. NUM_KEYS - 1 |-> FALSE],
      !.delay_t = 0,
      !.sound_t = 0 ]

--------------------------------------------------------------------------
(* Emulator::keypress, Emulator::load, Emulator::tick_timers *)

\* A key event that sets the flag whatever "pressed" says.
keypress_always_presses(e, idx, pressed) ==
  IF idx >= NUM_KEYS THEN Panic(e, IndexFault)
  ELSE [e EXCEPT !.keys[idx] = TRUE]

keypress(e, idx, pressed) ==
  IF idx >= NUM_KEYS THEN Panic(e, IndexFault)
  ELSE [e EXCEPT !.keys[idx] = pressed]

\* A load that clears the memory after the program area's start first.
load_zeroes_rest(e, data) ==
  LET start == START_ADDR
      end == START_ADDR + Len(data)
  IN IF end > RAM_SIZE THEN Panic(e, IndexFault)
     ELSE LET kept == {a \in DOMAIN e.ram : a < start}
              copied == {a \in start .. end - 1 : data[a - start + 1] # 0}
          IN [e EXCEPT !.ram = [a \in kept \cup copied |->
                                  IF a \in copied THEN data[a - start + 1]
                                  ELSE e.ram[a]]]

\* data is a sequence of bytes; the slice ram[start..end] is checked before the copy.
load(e, data) ==
  LET start == START_ADDR
      end == START_ADDR + Len(data)
  IN IF end > RAM_SIZE THEN Panic(e, IndexFault)
     ELSE LET kept == {a \in DOMAIN e.ram : a < start \/ a >= end}
              copied == {a \in start .. end - 1 : data[a - start + 1] # 0}
          IN [e EXCEPT !.ram = [a \in kept \cup copied |->
                                  IF a \in copied THEN data[a - start + 1]
                                  ELSE e.ram[a]]]

\* Timers decremented without the test for zero: 0 wraps to 255.
tick_timers_wrapping(e) ==
  [e EXCEPT !.delay_t = (e.delay_t + U8 - 1) % U8,
            !.sound_t = (e.sound_t + U8 - 1) % U8]

tick_timers(e) ==
  LET d == IF e.delay_t > 0 THEN e.delay_t - 1 ELSE e.delay_t
      s == IF e.sound_t > 0 THEN e.sound_t - 1 ELSE e.sound_t
  IN [e EXCEPT !.delay_t = d, !.sound_t = s]

--------------------------------------------------------------------------
(* Emulator::push and Emulator::pop *)

\* A push that wraps the slot index and so never faults.
push_wraps_around(e, val) ==
  [e EXCEPT !.stack[e.sp % STACK_SIZE] = val, !.sp = e.sp + 1]

push(e, val) ==
  IF e.sp >= STACK_SIZE THEN Panic(e, IndexFault)
  ELSE [e EXCEPT !.stack[e.sp] = val, !.sp = e.sp + 1]

\* "self.sp -= 1" on sp = 0 panics under overflow checks (oc) and wraps to
\* 65535 without them, where the index panics.  Returns the emulator and the
\* popped value.
pop(e, oc) ==
  IF e.sp = 0 /\ oc THEN [emu |-> Panic(e, OverflowFault), val |-> 0]
  ELSE LET s == (e.sp - 1 + U16) % U16
       IN IF s >= STACK_SIZE
          THEN [emu |-> Panic([e EXCEPT !.sp = s], IndexFault), val |-> 0]
          ELSE [emu |-> [e EXCEPT !.sp = s], val |-> e.stack[s]]


--------------------------------------------------------------------------
(* Emulator::fetch: the big-endian opcode at pc, and pc advanced by 2. *)

fetch(e) ==
  IF e.pc >= RAM_SIZE THEN [emu |-> Panic(e, IndexFault), op |-> 0]
  ELSE IF e.pc + 1 >= RAM_SIZE THEN [emu |-> Panic(e, IndexFault), op |-> 0]
  ELSE LET upper_byte == RamRead(e.ram, e.pc)
           lower_byte == RamRead(e.ram, e.pc + 1)
       IN [emu |-> [e EXCEPT !.pc = e.pc + 2], op |-> upper_byte * 256 + lower_byte]

--------------------------------------------------------------------------
(* The arms of decode_and_execute.  e is the emulator after fetch. *)

SetReg(e, x, val) == [e EXCEPT !.v_reg[x] = val]
\* A skip taken when the condition fails.
Skip_inverted(e, cond) == IF cond THEN e ELSE [e EXCEPT !.pc = e.pc + 2]

Skip(e, cond) == IF cond THEN [e EXCEPT !.pc = e.pc + 2] ELSE e

\* A clear of the first row of the screen only.
op_cls_first_row_only(e) ==
  [e EXCEPT !.screen = {p \in e.screen : p >= SCREEN_WIDTH}]

op_cls(e) == [e EXCEPT !.screen = BlankScreen]

op_ret(e, oc) ==
  LET r == pop(e, oc)
  IN IF Ok(r.emu) THEN [r.emu EXCEPT !.pc = r.val] ELSE r.emu

op_jmp(e, nnn) == [e EXCEPT !.pc = nnn]

\* A call that saves the address of the call itself.
op_call_saves_own_addr(e, nnn) ==
  LET pushed == push(e, e.pc - 2)
  IN IF Ok(pushed) THEN [pushed EXCEPT !.pc = nnn] ELSE pushed

op_call(e, nnn) ==
  LET pushed == push(e, e.pc)
  IN IF Ok(pushed) THEN [pushed EXCEPT !.pc = nnn] ELSE pushed

op_add_nn(e, x, nn) == SetReg(e, x, (e.v_reg[x] + nn) % U8)

\* An addition whose carry is tested on the wrapped sum: never set.
op_add_carry_lost(e, x, y) ==
  LET r == overflowing_add(e.v_reg[x], e.v_reg[y])
      new_vf == IF r.val >= U8 THEN 1 ELSE 0
  IN SetReg(SetReg(e, x, r.val), 15, new_vf)

\* 8XY4: VX += VY, VF = carry
op_add(e, x, y) ==
  LET r == overflowing_add(e.v_reg[x], e.v_reg[y])
      new_vf == IF r.of THEN 1 ELSE 0
  IN SetReg(SetReg(e, x, r.val), 15, new_vf)

\* A subtraction with the flag in the carry sense: 1 on a borrow.
op_sub_flag_is_borrow(e, x, y) ==
  LET r == overflowing_sub(e.v_reg[x], e.v_reg[y])
      new_vf == IF r.of THEN 1 ELSE 0
  IN SetReg(SetReg(e, x, r.val), 15, new_vf)

\* 8XY5: VX -= VY, VF = not borrow
op_sub(e, x, y) ==
  LET r == overflowing_sub(e.v_reg[x], e.v_reg[y])
      new_vf == IF r.of THEN 0 ELSE 1
  IN SetReg(SetReg(e, x, r.val), 15, new_vf)

\* 8XY6: VX >>= 1, VF = the bit shifted out
op_shr(e, x) ==
  LET lsb == e.v_reg[x] % 2
  IN SetReg(SetReg(e, x, e.v_reg[x] \div 2), 15, lsb)

\* 8XY7: the code takes both x and y from the second nibble (hex_2).
op_subn(e, hex_2, hex_3) ==
  LET x == hex_2
      y == hex_2
      r == overflowing_sub(e.v_reg[y], e.v_reg[x])
      new_vf == IF r.of THEN 0 ELSE 1
  IN SetReg(SetReg(e, x, r.val), 15, new_vf)

\* 8XYE: VX <<= 1, VF = the bit shifted out
op_shl(e, x) ==
  LET msb == e.v_reg[x] \div 128
  IN SetReg(SetReg(e, x, (e.v_reg[x] * 2) % U8), 15, msb)

\* A CXNN that stores the random byte without the mask.
op_rand_unmasked(e, x, nn, rng) == SetReg(e, x, rng)

\* CXNN: VX = rand() & NN
op_rand(e, x, nn, rng) == SetReg(e, x, BitAnd(rng, nn))

--------------------------------------------------------------------------
(* DXYN: the sprite draw.  The loops of the code, row by row and column by *)
(* column, on an accumulator of the screen and the "flipped" flag.         *)

\* A draw that sets the pixel instead of flipping it.
Toggle_sets(scr, idx) == scr \cup {idx}

\* "self.screen[idx] ^= true" on the compact form of screen.
Toggle(scr, idx) == IF idx \in scr THEN scr \ {idx} ELSE scr \cup {idx}

\* A pixel index whose column is wrapped at the screen's height.
pixel_idx_wraps_at_height(x_coord, x_line, y_coord, y_line) ==
  LET x == (x_coord + x_line) % SCREEN_HEIGHT
      y == (y_coord + y_line) % SCREEN_HEIGHT
  IN x + SCREEN_WIDTH * y

\* The pixel of column x_line of row y_line: the coordinates wrap.
pixel_idx(x_coord, x_line, y_coord, y_line) ==
  LET x == (x_coord + x_line) % SCREEN_WIDTH
      y == (y_coord + y_line) % SCREEN_HEIGHT
  IN x + SCREEN_WIDTH * y

\* Always true: the test makes TLC, which evaluates arguments lazily, work
\* the accumulator out column by column instead of nesting 120 deep.
Evaluated(acc) == acc.flipped \in BOOLEAN

RECURSIVE draw_cols(_, _, _, _, _, _)
draw_cols(acc, pixels, x_coord, y_coord, y_line, x_line) ==
  IF x_line = 8 THEN acc
  ELSE IF Evaluated(acc) /\ BitAnd(pixels, 128 \div (2 ^ x_line)) # 0
       THEN LET idx == pixel_idx(x_coord, x_line, y_coord, y_line)
            IN draw_cols([screen |-> Toggle(acc.screen, idx),
                          flipped |-> acc.flipped \/ idx \in acc.screen],
                         pixels, x_coord, y_coord, y_line, x_line + 1)
       ELSE draw_cols(acc, pixels, x_coord, y_coord, y_line, x_line + 1)

\* Returns the accumulator and the fault that ended the loop, if any.
RECURSIVE draw_rows(_, _, _, _, _, _, _)
draw_rows(e, acc, x_coord, y_coord, num_rows, y_line, oc) ==
  IF y_line = num_rows THEN [acc |-> acc, fault |-> NoFault]
  ELSE IF e.i_reg + y_line >= U16 /\ oc THEN [acc |-> acc, fault |-> OverflowFault]
  ELSE LET addr == (e.i_reg + y_line) % U16
       IN IF addr >= RAM_SIZE THEN [acc |-> acc, fault |-> IndexFault]
          ELSE draw_rows(e, draw_cols(acc, RamRead(e.ram, addr), x_coord, y_coord, y_line, 0),
                         x_coord, y_coord, num_rows, y_line + 1, oc)

op_draw(e, hex_2, hex_3, hex_4, oc) ==
  LET x_coord == e.v_reg[hex_2]
      y_coord == e.v_reg[hex_3]
      num_rows == hex_4
      r == draw_rows(e, [screen |-> e.screen, flipped |-> FALSE],
                     x_coord, y_coord, num_rows, 0, oc)
      drawn == [e EXCEPT !.screen = r.acc.screen]
  IN IF r.fault # NoFault THEN Panic(drawn, r.fault)
     ELSE SetReg(drawn, 15, IF r.acc.flipped THEN 1 ELSE 0)

--------------------------------------------------------------------------
(* Keypad instructions *)

\* A key test that takes the low four bits of VX for the key.
op_skip_key_low_nibble(e, x, want) ==
  Skip(e, e.keys[e.v_reg[x] % NUM_KEYS] = want)

\* EX9E (want = TRUE) and EXA1 (want = FALSE): self.keys[vx as usize]
op_skip_key(e, x, want) ==
  LET vx == e.v_reg[x]
  IN IF vx >= NUM_KEYS THEN Panic(e, IndexFault)
     ELSE Skip(e, e.keys[vx] = want)

\* The scan "for i in 0..self.keys.len()": the first pressed key, or NUM_KEYS.
RECURSIVE first_pressed(_, _)
first_pressed(k, i) ==
  IF i = NUM_KEYS THEN NUM_KEYS
  ELSE IF k[i] THEN i ELSE first_pressed(k, i + 1)

\* A key wait that does not rewind pc when no key is pressed.
op_wait_key_no_rewind(e, x) ==
  LET i == first_pressed(e.keys, 0)
  IN IF i < NUM_KEYS THEN SetReg(e, x, i) ELSE e

\* A key wait whose "pressed" is never set: it stores the key and rewinds.
op_wait_key_never_done(e, x) ==
  LET i == first_pressed(e.keys, 0)
      stored == IF i < NUM_KEYS THEN SetReg(e, x, i) ELSE e
  IN [stored EXCEPT !.pc = e.pc - 2]

op_wait_key(e, x) ==
  LET i == first_pressed(e.keys, 0)
      pressed == i < NUM_KEYS
  IN IF pressed THEN SetReg(e, x, i)
     ELSE [e EXCEPT !.pc = e.pc - 2]

--------------------------------------------------------------------------
(* Memory instructions *)

op_add_i(e, x) == [e EXCEPT !.i_reg = (e.i_reg + e.v_reg[x]) % U16]

op_font(e, x) == [e EXCEPT !.i_reg = e.v_reg[x] * 5]

\* One checked store "self.ram[addr] = val".
Store(e, addr, val) ==
  IF ~Ok(e) THEN e
  ELSE IF addr >= RAM_SIZE THEN Panic(e, IndexFault)
  ELSE [e EXCEPT !.ram = RamWrite(e.ram, addr, val)]

\* FX33: the digits as the code computes them from vx as f32 (exact on 0..255).
op_bcd(e, x) ==
  LET vx == e.v_reg[x]
      hundreds == vx \div 100
      tens == vx \div 10
      ones == vx % 10
  IN Store(Store(Store(e, e.i_reg, hundreds), e.i_reg + 1, tens), e.i_reg + 2, ones)

\* A store that forgets the index register: register idx goes to address idx.
RECURSIVE op_store_without_index(_, _, _)
op_store_without_index(e, x, idx) ==
  IF idx > x \/ ~Ok(e) THEN e
  ELSE op_store_without_index(Store(e, idx, e.v_reg[idx]), x, idx + 1)

\* FX55: V0..=VX to memory at I
RECURSIVE op_store(_, _, _)
op_store(e, x, idx) ==
  IF idx > x \/ ~Ok(e) THEN e
  ELSE op_store(Store(e, e.i_reg + idx, e.v_reg[idx]), x, idx + 1)

RECURSIVE op_load(_, _, _)
op_load(e, x, idx) ==
  IF idx > x THEN e
  ELSE IF e.i_reg + idx >= RAM_SIZE THEN Panic(e, IndexFault)
  ELSE op_load(SetReg(e, idx, RamRead(e.ram, e.i_reg + idx)), x, idx + 1)

--------------------------------------------------------------------------
(* Emulator::decode_and_execute and Emulator::tick.  rng is the byte that  *)
(* random() returns; oc says whether the build checks integer overflow.    *)

\* An unmatched word taken for a no-operation.
op_unimplemented_is_nop(e, op) == e

\* The last arm: unimplemented!("Unimplemented opcode: {}", op)
op_unimplemented(e, op) == Panic(e, Unimplemented(op))

decode_and_execute(e, op, rng, oc) ==
  LET hex_1 == (op \div 4096) % 16
      hex_2 == (op \div 256) % 16
      hex_3 == (op \div 16) % 16
      hex_4 == op % 16
      nnn == op % 4096
      nn == op % 256
      x == hex_2
      y == hex_3
  IN CASE hex_1 = 0 /\ hex_2 = 0 /\ hex_3 = 0 /\ hex_4 = 0 -> e
       [] hex_1 = 0 /\ hex_2 = 0 /\ hex_3 = 14 /\ hex_4 = 0 -> op_cls(e)
       [] hex_1 = 0 /\ hex_2 = 0 /\ hex_3 = 14 /\ hex_4 = 14 -> op_ret(e, oc)
       [] hex_1 = 1 -> op_jmp(e, nnn)
       [] hex_1 = 2 -> op_call(e, nnn)
       [] hex_1 = 3 -> Skip(e, e.v_reg[x] = nn)
       [] hex_1 = 4 -> Skip(e, e.v_reg[x] # nn)
       [] hex_1 = 5 /\ hex_4 = 0 -> Skip(e, e.v_reg[x] = e.v_reg[y])
       [] hex_1 = 6 -> SetReg(e, x, nn)
       [] hex_1 = 7 -> op_add_nn(e, x, nn)
       [] hex_1 = 8 /\ hex_4 = 0 -> SetReg(e, x, e.v_reg[y])
       [] hex_1 = 8 /\ hex_4 = 1 -> SetReg(e, x, BitOr(e.v_reg[x], e.v_reg[y]))
       [] hex_1 = 8 /\ hex_4 = 2 -> SetReg(e, x, BitAnd(e.v_reg[x], e.v_reg[y]))
       [] hex_1 = 8 /\ hex_4 = 3 -> SetReg(e, x, BitXor(e.v_reg[x], e.v_reg[y]))
       [] hex_1 = 8 /\ hex_4 = 4 -> op_add(e, x, y)
       [] hex_1 = 8 /\ hex_4 = 5 -> op_sub(e, x, y)
       [] hex_1 = 8 /\ hex_4 = 6 -> op_shr(e, x)
       [] hex_1 = 8 /\ hex_4 = 7 -> op_subn(e, hex_2, hex_3)
       [] hex_1 = 8 /\ hex_4 = 14 -> op_shl(e, x)
       [] hex_1 = 9 /\ hex_4 = 0 -> Skip(e, e.v_reg[x] # e.v_reg[y])
       [] hex_1 = 10 -> [e EXCEPT !.i_reg = nnn]
       [] hex_1 = 11 -> [e EXCEPT !.pc = e.v_reg[0] + nnn]
       [] hex_1 = 12 -> op_rand(e, x, nn, rng)
       [] hex_1 = 13 -> op_draw(e, hex_2, hex_3, hex_4, oc)
       [] hex_1 = 14 /\ hex_3 = 9 /\ hex_4 = 14 -> op_skip_key(e, x, TRUE)
       [] hex_1 = 14 /\ hex_3 = 10 /\ hex_4 = 1 -> op_skip_key(e, x, FALSE)
       [] hex_1 = 15 /\ hex_3 = 0 /\ hex_4 = 7 -> SetReg(e, x, e.delay_t)
       [] hex_1 = 15 /\ hex_3 = 0 /\ hex_4 = 10 -> op_wait_key(e, x)
       [] hex_1 = 15 /\ hex_3 = 1 /\ hex_4 = 5 -> [e EXCEPT !.delay_t = e.v_reg[x]]
       [] hex_1 = 15 /\ hex_3 = 1 /\ hex_4 = 8 -> [e EXCEPT !.sound_t = e.v_reg[x]]
       [] hex_1 = 15 /\ hex_3 = 1 /\ hex_4 = 14 -> op_add_i(e, x)
       [] hex_1 = 15 /\ hex_3 = 2 /\ hex_4 = 9 -> op_font(e, x)
       [] hex_1 = 15 /\ hex_3 = 3 /\ hex_4 = 3 -> op_bcd(e, x)
       [] hex_1 = 15 /\ hex_3 = 5 /\ hex_4 = 5 -> op_store(e, x, 0)
       [] hex_1 = 15 /\ hex_3 = 6 /\ hex_4 = 5 -> op_load(e, x, 0)
       [] OTHER -> op_unimplemented(e, op)

tick(e, rng, oc) ==
  LET f == fetch(e)
  IN IF Ok(f.emu) THEN decode_and_execute(f.emu, f.op, rng, oc) ELSE f.emu

--------------------------------------------------------------------------
(* The state: the fields of the Emulator, the fault, and a history:        *)
(* "last" names the host call that produced the state (and the opcode a    *)
(* tick fetched), "prev" is the emulator before that call, and "calls" is  *)
(* the list of the addresses of the 2NNN instructions executed and not yet *)
(* returned from, kept from the opcodes fetched and not from the stack;    *)
(* last.site is the call a 00EE is matched with (-1 otherwise) and         *)
(* last.arg the argument of a host call: the bytes of a load, the index    *)
(* and the flag of a key event.                                            *)

Machine ==
  [ pc |-> pc, ram |-> ram, screen |-> screen, v_reg |-> v_reg, i_reg |-> i_reg,
    sp |-> sp, stack |-> stack, keys |-> keys, delay_t |-> delay_t,
    sound_t |-> sound_t, fault |-> fault ]

IsCall(op) == op \div 4096 = 2
IsRet(op) == op = 238

BecomesWith(e, call, op, arg) ==
  /\ pc' = e.pc
  /\ ram' = e.ram
  /\ screen' = e.screen
  /\ v_reg' = e.v_reg
  /\ i_reg' = e.i_reg
  /\ sp' = e.sp
  /\ stack' = e.stack
  /\ keys' = e.keys
  /\ delay_t' = e.delay_t
  /\ sound_t' = e.sound_t
  /\ fault' = e.fault
  /\ prev' = Machine
  /\ LET ran == call = "tick" /\ Ok(e)
         top == IF calls # << >> THEN calls[Len(calls)] ELSE -1
     IN /\ last' = [call |-> call, op |-> op,
                    site |-> IF ran /\ IsRet(op) THEN top ELSE -1,
                    arg |-> arg]
        /\ calls' = CASE call = "reset" -> << >>
                      [] ran /\ IsCall(op) -> Append(calls, pc)
                      [] ran /\ IsRet(op) -> SubSeq(calls, 1, Len(calls) - 1)
                      [] OTHER -> calls

Becomes(e, call, op) == BecomesWith(e, call, op, << >>)

Init ==
  /\ pc = new.pc
  /\ ram = new.ram
  /\ screen = new.screen
  /\ v_reg = new.v_reg
  /\ i_reg = new.i_reg
  /\ sp = new.sp
  /\ stack = new.stack
  /\ keys = new.keys
  /\ delay_t = new.delay_t
  /\ sound_t = new.sound_t
  /\ fault = new.fault
  /\ prev = new
  /\ last = [call |-> "new", op |-> -1, site |-> -1, arg |-> << >>]
  /\ calls = << >>

\* The opcode the next tick fetches (-1 when the fetch itself faults).
NextOp == LET f == fetch(Machine) IN IF Ok(f.emu) THEN f.op ELSE -1

\* The bytes random() may return; only CXNN draws one.
RandBytes == {0, 85, 255}
Draws == IF NextOp \div 4096 = 12 THEN RandBytes ELSE {0}

\* The builds: with and without overflow checks; only a pop on an empty
\* stack tells them apart.
Builds == IF sp = 0 THEN BOOLEAN ELSE {TRUE}

\* Blank memory is a run of 0000 words (no operation).  The run is followed
\* for MaxNops instructions from START_ADDR and for the last MaxNops words of
\* memory, where the fetch runs off the end of ram.
MaxNops == 2
NopFollowed ==
  NextOp = 0 => (pc < START_ADDR + 2 * MaxNops \/ pc >= RAM_SIZE - 2 * MaxNops)

Tick ==
  /\ fault = NoFault
  /\ NopFollowed
  /\ \E rng \in Draws : \E oc \in Builds :
        Becomes(tick(Machine, rng, oc), "tick", NextOp)

TickTimers ==
  /\ fault = NoFault
  /\ Becomes(tick_timers(Machine), "tick_timers", -1)

Reset ==
  /\ fault = NoFault
  /\ Becomes(reset(Machine), "reset", -1)

KeypressOf(K) ==
  /\ fault = NoFault
  /\ \E idx \in K : \E pressed \in BOOLEAN :
        BecomesWith(keypress(Machine, idx, pressed), "keypress", -1, << idx, pressed >>)

LoadOf(P) ==
  /\ fault = NoFault
  /\ \E data \in P : BecomesWith(load(Machine, data), "load", -1, data)

\* A host that loads its program once, right after construction.
LoadOnceOf(P) ==
  /\ last.call = "new"
  /\ LoadOf(P)

--------------------------------------------------------------------------
(* Programs: opcodes and their bytes. *)

Op(a, b, c, d) == a * 4096 + b * 256 + c * 16 + d
OpNNN(a, nnn) == a * 4096 + nnn
OpXNN(a, x, nn) == a * 4096 + x * 256 + nn

Bytes(ws) ==
  [i \in 1 .. 2 * Len(ws) |->
     IF i % 2 = 1 THEN ws[(i + 1) \div 2] \div 256 ELSE ws[i \div 2] % 256]

\* A program that sets V0, both timers and I, draws glyph "1", calls a
\* routine that waits for a key, stores its BCD digits and returns.
DemoProgram ==
  Bytes(<< OpXNN(6, 0, 5), Op(15, 0, 1, 5), Op(15, 0, 1, 8), OpNNN(10, 5),
           Op(13, 0, 0, 5), OpNNN(2, 526), OpNNN(1, 524), Op(15, 1, 0, 10),
           Op(15, 1, 3, 3), Op(0, 0, 14, 14) >>)

Programs == {DemoProgram}
HostKeys == {1, 15}

Next ==
  \/ LoadOf(Programs)
  \/ KeypressOf(HostKeys)
  \/ Tick
  \/ TickTimers
  \/ Reset

Spec == Init /\ [][Next]_vars

--------------------------------------------------------------------------
(* The key-wait host: a program that sets the delay timer and then waits   *)
(* for a key into VX over and over, a host that presses and releases keys  *)
(* (key 16 is no key: the call panics) and drives both clocks.             *)

KeyProgram(x) ==
  Bytes(<< OpXNN(6, 0, 3), Op(15, 0, 1, 5), Op(15, x, 0, 10), OpNNN(1, 516) >>)
KeyRegs == {0, 1, 15}
KeyPrograms == {KeyProgram(x) : x \in KeyRegs}
WaitKeys == {0, 3, 15, 16}

NextKey ==
  \/ LoadOf(KeyPrograms)
  \/ KeypressOf(WaitKeys)
  \/ Tick
  \/ TickTimers

SpecKey == Init /\ [][NextKey]_vars

\* The same programs under a host that keeps stepping: it loads one
\* program, presses and releases keys 3 and 15 and ticks the timers as
\* it likes, and does not stop calling tick.
HeldKeys == {3, 15}

NextWait ==
  \/ LoadOnceOf(KeyPrograms)
  \/ KeypressOf(HeldKeys)
  \/ Tick
  \/ TickTimers

SpecWait == Init /\ [][NextWait]_vars /\ WF_vars(Tick)

--------------------------------------------------------------------------
(* The call host: programs of nested calls.  NestProgram(k) makes k calls, *)
(* each to the word after the next, and then returns k times: the call at  *)
(* 0x200 + 4(i-1) is followed by a 00EE, where the i-th return lands.      *)

MaxNest == 17
NestProgram(k) ==
  Bytes([j \in 1 .. 2 * k + 1 |->
           IF j % 2 = 1 /\ j < 2 * k + 1
           THEN OpNNN(2, START_ADDR + 4 * ((j + 1) \div 2))
           ELSE Op(0, 0, 14, 14)])
\* Two calls of one routine, and a routine that calls itself for ever.
SharedCallee ==
  Bytes(<< OpNNN(2, 518), OpNNN(2, 518), OpNNN(1, 516), Op(0, 0, 14, 14) >>)
Recursion == Bytes(<< OpNNN(2, 512) >>)
CallPrograms == {NestProgram(k) : k \in 1 .. MaxNest} \cup {SharedCallee, Recursion}

NextCall ==
  \/ LoadOnceOf(CallPrograms)
  \/ Tick

SpecCall == Init /\ [][NextCall]_vars

\* The same programs under a host that also resets the emulator and loads
\* a program again after a reset.
LoadFreshOf(P) ==
  /\ last.call \in {"new", "reset"}
  /\ LoadOf(P)

NextStack ==
  \/ LoadFreshOf(CallPrograms)
  \/ Tick
  \/ Reset

SpecStack == Init /\ [][NextStack]_vars

--------------------------------------------------------------------------
(* The timer host: programs that set the delay timer from V0 and the sound *)
(* timer from V1, and a host that ticks the timers at any moment.          *)

TimerProgram(a, b) ==
  Bytes(<< OpXNN(6, 0, a), OpXNN(6, 1, b), Op(15, 0, 1, 5), Op(15, 1, 1, 8),
           OpNNN(1, 520) >>)
TimerPairs ==
  {<<0, 0>>, <<1, 0>>, <<0, 1>>, <<2, 1>>, <<1, 2>>, <<255, 3>>, <<3, 255>>}
TimerPrograms == {TimerProgram(t[1], t[2]) : t \in TimerPairs}

NextTimer ==
  \/ LoadOnceOf(TimerPrograms)
  \/ Tick
  \/ TickTimers

SpecTimer == Init /\ [][NextTimer]_vars

--------------------------------------------------------------------------
(* The arithmetic host: programs that set VX to a and VY to b (b wins when *)
(* X = Y) and then run 8XY4, 8XY5 or 8XY7, for every pair of registers.    *)

AluProgram(x, y, a, b, n) ==
  Bytes(<< OpXNN(6, x, a), OpXNN(6, y, b), Op(8, x, y, n), OpNNN(1, 518) >>)
AluVals == {0, 1, 2, 128, 255}
AluOps == {4, 5, 7}
AluPrograms ==
  {AluProgram(x, y, a, b, n) :
     x \in 0 .. NUM_REGS - 1, y \in 0 .. NUM_REGS - 1,
     a \in AluVals, b \in AluVals, n \in AluOps}

NextAlu ==
  \/ LoadOnceOf(AluPrograms)
  \/ Tick

SpecAlu == Init /\ [][NextAlu]_vars

--------------------------------------------------------------------------
(* The memory host: programs that set VX to v and I to nnn and run FX33.   *)

BcdProgram(x, v, nnn) ==
  Bytes(<< OpXNN(6, x, v), OpNNN(10, nnn), Op(15, x, 3, 3), OpNNN(1, 518) >>)
BcdRegs == {0, 5, 15}
BcdVals == {0, 7, 10, 99, 100, 157, 255}
BcdAddrs == {78, 768, 4093, 4094, 4095}
MemPrograms ==
  {BcdProgram(x, v, nnn) : x \in BcdRegs, v \in BcdVals, nnn \in BcdAddrs}

NextMem ==
  \/ LoadOnceOf(MemPrograms)
  \/ Tick

SpecMem == Init /\ [][NextMem]_vars

--------------------------------------------------------------------------
(* The drawing host: programs that set VX to a and VY to b, draw bg rows   *)
(* of glyph "8" there, move 3 columns to the right and then draw the n     *)
(* rows at nnn twice, over and over.                                       *)

DrawProgram(x, y, a, b, bg, nnn, n) ==
  Bytes(<< OpXNN(6, x, a), OpXNN(6, y, b), OpNNN(10, 40), Op(13, x, y, bg),
           OpXNN(7, x, 3), OpNNN(10, nnn), Op(13, x, y, n), Op(13, x, y, n),
           OpNNN(1, 524) >>)
DrawRegs == {<<0, 1>>, <<2, 2>>, <<15, 1>>}
DrawXs == {0, 60, 63, 252}
DrawYs == {0, 28, 31, 250}
DrawBgRows == {0, 5}
DrawAddrs == {0, 75, 512, 4090}
DrawRows == {1, 5, 15}
DrawPrograms ==
  {DrawProgram(r[1], r[2], a, b, bg, nnn, n) :
     r \in DrawRegs, a \in DrawXs, b \in DrawYs, bg \in DrawBgRows,
     nnn \in DrawAddrs, n \in DrawRows}

NextDraw ==
  \/ LoadOnceOf(DrawPrograms)
  \/ Tick

SpecDraw == Init /\ [][NextDraw]_vars

--------------------------------------------------------------------------
(* The decoding host: programs that set V0 to 5, V7 to 200 and I to 0x300  *)
(* and then run one word w, for every 16-bit word whose second nibble is   *)
(* 0, 7 or 15; a 00E0 follows the word.                                    *)

WordProgram(w) ==
  Bytes(<< OpXNN(6, 0, 5), OpXNN(6, 7, 200), OpNNN(10, 768), w, Op(0, 0, 14, 0) >>)
WordRegs == {0, 7, 15}
Words == {w \in 0 .. U16 - 1 : (w \div 256) % 16 \in WordRegs}
WordPrograms == {WordProgram(w) : w \in Words}

NextWord ==
  \/ LoadOnceOf(WordPrograms)
  \/ Tick

SpecWord == Init /\ [][NextWord]_vars

--------------------------------------------------------------------------
(* The glyph host: programs that set V0 to 1, VX to v and I to nnn, run    *)
(* one memory or drawing instruction on register X and loop.  The host     *)
(* loads one program, presses keys, ticks both clocks and resets.          *)

GlyphProgram(x, v, nnn, w) ==
  Bytes(<< OpXNN(6, 0, 1), OpXNN(6, x, v), OpNNN(10, nnn), w, OpNNN(1, 520) >>)
GlyphRegs == {0, 2, 15}
GlyphVals == {0, 157}
GlyphAddrs == {0, 5, 77, 78, 79, 80, 768}
GlyphOps(x) ==
  {Op(15, x, 3, 3), Op(15, x, 5, 5), Op(15, x, 6, 5), Op(15, x, 1, 14),
   Op(15, x, 2, 9), Op(13, x, 0, 5), Op(0, 0, 14, 0)}
GlyphPrograms ==
  {GlyphProgram(x, v, nnn, w) :
     x \in GlyphRegs, v \in GlyphVals, nnn \in GlyphAddrs,
     w \in UNION {GlyphOps(r) : r \in GlyphRegs}}

NextGlyph ==
  \/ LoadOnceOf(GlyphPrograms)
  \/ KeypressOf(HostKeys)
  \/ Tick
  \/ TickTimers
  \/ Reset

SpecGlyph == Init /\ [][NextGlyph]_vars

--------------------------------------------------------------------------
(* The loading host: it loads images of 0, 1, 16, 3584 and 3585 bytes, one *)
(* over the other and at any moment of a run, presses a key and drives     *)
(* both clocks.  FrameProgram sets V0 and the delay timer to 3 and I to 5, *)
(* draws the glyph there, calls a routine and waits for a key in it.       *)
(* PadTo fills an image with zero bytes and ends it with 0xFF.             *)

PadTo(prog, n) ==
  [i \in 1 .. n |-> IF i <= Len(prog) THEN prog[i] ELSE IF i = n THEN 255 ELSE 0]
FrameProgram ==
  Bytes(<< OpXNN(6, 0, 3), Op(15, 0, 1, 5), OpNNN(10, 5), Op(13, 0, 0, 5),
           OpNNN(2, 524), OpNNN(1, 522), Op(15, 1, 0, 10), OpNNN(1, 524) >>)
LoadImages ==
  { << >>, << 7 >>, FrameProgram,
    PadTo(Bytes(<< OpNNN(1, 512) >>), RAM_SIZE - START_ADDR),
    PadTo(Bytes(<< OpNNN(1, 512) >>), RAM_SIZE - START_ADDR + 1) }
LoadKeys == {1}

NextLoad ==
  \/ LoadOf(LoadImages)
  \/ KeypressOf(LoadKeys)
  \/ Tick
  \/ TickTimers

SpecLoad == Init /\ [][NextLoad]_vars

--------------------------------------------------------------------------
(* The stepping host: programs that set V0 = 7, V1 = 2, V2 = 16, V3 = 255, *)
(* draw glyph "0" at (7, 2), set I to 0x300 and then run one word w: one   *)
(* or more words of every opcode pattern, and five that match none.  The   *)
(* word is followed by two loops (the second is where a skip or a jump     *)
(* lands) and by the 00EE of the routine that 2214 calls.  The host loads  *)
(* a program, presses and releases keys 2 and 7, drives both clocks,       *)
(* resets, and may load two more bytes (a jump) at any moment.             *)

StepProgram(w) ==
  Bytes(<< OpXNN(6, 0, 7), OpXNN(6, 1, 2), OpXNN(6, 2, 16), OpXNN(6, 3, 255),
           OpNNN(10, 0), Op(13, 0, 1, 5), OpNNN(10, 768), w,
           OpNNN(1, 528), OpNNN(1, 530), Op(0, 0, 14, 14) >>)
StepWords ==
  { 0, 224, 238, 4626, 8724, 12546, 12547, 16642, 16643, 20736, 20752,
    37120, 37136, 25002, 29183, 33024, 33025, 33026, 33027, 33028, 33029,
    33030, 33031, 33038, 41251, 45579, 49648, 53269, 53541, 57502, 57505,
    57758, 57761, 58014, 58273, 61703, 61706, 61461, 61464, 61470, 61737,
    61491, 61781, 61797, 20737, 33032, 57759, 61951, 291 }
StepPrograms == {StepProgram(w) : w \in StepWords}
StepKeys == {2, 7}
StepReloads == {Bytes(<< OpNNN(1, 530) >>)}

NextStep ==
  \/ LoadOnceOf(StepPrograms)
  \/ LoadOf(StepReloads)
  \/ KeypressOf(StepKeys)
  \/ Tick
  \/ TickTimers
  \/ Reset

SpecStep == Init /\ [][NextStep]_vars

--------------------------------------------------------------------------
(* Helpers of the claims: the opcode a tick ran and its fields. *)

Ticked == last.call = "tick" /\ last.op >= 0
Ran == Ticked /\ fault = NoFault
Hex1 == (last.op \div 4096) % 16
Hex2 == (last.op \div 256) % 16
Hex3 == (last.op \div 16) % 16
Hex4 == last.op % 16

--------------------------------------------------------------------------
(* C1: after any run of load, keypress, tick and tick_timers calls that    *)
(* does not fault, reset leaves the emulator in exactly the state of a     *)
(* fresh new(): pc = 0x200, memory zero but for the 80 glyph bytes at      *)
(* 0..79, framebuffer off, registers, index register, stack pointer and    *)
(* stack zero, keys released, timers zero.                                 *)
C1_ResetIsNew ==
  last.call = "reset" =>
    /\ Machine = new
    /\ pc = 512
    /\ \A a \in 0 .. RAM_SIZE - 1 :
         RamRead(ram, a) = IF a < 80 THEN FONTSET[a + 1] ELSE 0
    /\ screen = {}
    /\ \A r \in 0 .. 15 : v_reg[r] = 0
    /\ i_reg = 0 /\ sp = 0
    /\ \A i \in 0 .. 15 : stack[i] = 0 /\ ~keys[i]
    /\ delay_t = 0 /\ sound_t = 0
    /\ fault = NoFault

\* A reset of an emulator whose every part differs from a fresh one.
C1_Witness ==
  /\ last.call = "reset"
  /\ prev.pc # START_ADDR /\ prev.ram # FontRam /\ prev.screen # {}
  /\ prev.v_reg[1] # 0 /\ prev.i_reg # 0 /\ prev.sp > 0 /\ prev.stack[0] # 0
  /\ prev.keys[15] /\ prev.delay_t > 0 /\ prev.sound_t > 0
  /\ RamRead(prev.ram, 6) # FONTSET[7]

--------------------------------------------------------------------------
(* C2: a step on FX0A with no keypad flag set leaves pc, register X and    *)
(* the whole machine unchanged, however often it is repeated; with a flag  *)
(* set the step completes: register X is the lowest pressed key and pc is  *)
(* 2 past the instruction.                                                 *)
IsWaitKey == Ticked /\ Hex1 = 15 /\ Hex3 = 0 /\ Hex4 = 10
NoKeyPressed(k) == \A i \in 0 .. 15 : ~k[i]
LowestPressed(k) == CHOOSE i \in 0 .. 15 : k[i] /\ \A j \in 0 .. i - 1 : ~k[j]

C2_KeyWaitRetry ==
  IsWaitKey =>
    IF NoKeyPressed(prev.keys)
    THEN Machine = prev
    ELSE /\ fault = NoFault
         /\ v_reg[Hex2] = LowestPressed(prev.keys)
         /\ pc = prev.pc + 2

\* A retried wait: no key, a running delay timer, and the wait still at pc.
C2_Witness ==
  /\ IsWaitKey /\ NoKeyPressed(prev.keys)
  /\ delay_t > 0 /\ pc = prev.pc /\ NextOp = last.op
  /\ v_reg[0] = 3 /\ Hex2 = 0

\* A completed wait with two keys down: the lower one is stored.
C2_Completes ==
  /\ IsWaitKey /\ prev.keys[3] /\ prev.keys[15] /\ ~prev.keys[0]
  /\ Hex2 = 15 /\ v_reg[15] = 3 /\ pc = prev.pc + 2

--------------------------------------------------------------------------
(* C3: calls and returns nest: a 00EE that runs sets pc to the address of  *)
(* the matching 2NNN plus 2, last called first returned, and the stack     *)
(* pointer counts the calls not yet returned from, so that after k calls   *)
(* and k returns (k up to 16) it is back where it was.                     *)
C3_CallReturn ==
  /\ fault = NoFault => sp = Len(calls)
  /\ (Ran /\ IsCall(last.op)) =>
        /\ pc = last.op % 4096
        /\ sp = prev.sp + 1
        /\ calls[Len(calls)] = prev.pc
  /\ (Ran /\ IsRet(last.op)) =>
        /\ last.site >= 0
        /\ pc = last.site + 2
        /\ sp = prev.sp - 1

\* The 16th return of 16 nested calls: slot 15 of the stack was used, the
\* stack is empty again and pc is after the first call.
C3_Witness ==
  /\ Ran /\ IsRet(last.op)
  /\ sp = 0 /\ prev.sp = 1
  /\ stack[15] = START_ADDR + 4 * 15 + 2
  /\ last.site = START_ADDR /\ pc = START_ADDR + 2

--------------------------------------------------------------------------
(* C4: tick_timers decrements each nonzero timer by exactly 1, leaves a    *)
(* timer at 0 at 0 (no wrap to 255), each timer on its own, and changes    *)
(* nothing else of the machine.                                            *)
C4_TimersTick ==
  last.call = "tick_timers" =>
    /\ delay_t = (IF prev.delay_t = 0 THEN 0 ELSE prev.delay_t - 1)
    /\ sound_t = (IF prev.sound_t = 0 THEN 0 ELSE prev.sound_t - 1)
    /\ Machine = [prev EXCEPT !.delay_t = delay_t, !.sound_t = sound_t]

\* A timer tick with the delay timer at 0 and the sound timer running.
C4_Witness ==
  /\ last.call = "tick_timers"
  /\ prev.delay_t = 0 /\ delay_t = 0
  /\ prev.sound_t = 255 /\ sound_t = 254

--------------------------------------------------------------------------
(* C5: after 8XY7 register X holds (VY - VX) mod 256 of the values before  *)
(* the step and the flag register is 1 if VY >= VX (no borrow) and 0 if    *)
(* VY < VX.  (Register X is read here for X other than 15, where it is not *)
(* the flag register.)  The code computes VX - VX.                         *)
IsAlu(n) == Ran /\ Hex1 = 8 /\ Hex4 = n

C5_SubnClaim ==
  IsAlu(7) =>
    /\ Hex2 # 15 => v_reg[Hex2] = (prev.v_reg[Hex3] - prev.v_reg[Hex2] + 256) % 256
    /\ v_reg[15] = (IF prev.v_reg[Hex3] >= prev.v_reg[Hex2] THEN 1 ELSE 0)

\* What the code does on 8XY7: register X becomes 0 and the flag 1.
C5_CodeBehaviour ==
  IsAlu(7) => v_reg[15] = 1 /\ (Hex2 # 15 => v_reg[Hex2] = 0)

--------------------------------------------------------------------------
(* C7: after 8XY5 the flag register is 1 if VX >= VY before the step (no   *)
(* borrow) and 0 if VX < VY, and for X other than 15 register X holds      *)
(* (VX - VY) mod 256.                                                      *)
C7_SubBorrow ==
  IsAlu(5) =>
    /\ v_reg[15] = (IF prev.v_reg[Hex2] >= prev.v_reg[Hex3] THEN 1 ELSE 0)
    /\ Hex2 # 15 => v_reg[Hex2] = (prev.v_reg[Hex2] - prev.v_reg[Hex3] + 256) % 256

\* VX = 1, VY = 2: the difference wraps to 255 and the flag is 0.
C7_Witness ==
  /\ IsAlu(5) /\ Hex2 = 3 /\ Hex3 = 4
  /\ prev.v_reg[3] = 1 /\ prev.v_reg[4] = 2
  /\ v_reg[3] = 255 /\ v_reg[15] = 0

--------------------------------------------------------------------------
(* C8, as amended: after 8XY4 the flag register is 1 if VX + VY exceeded   *)
(* 255 and 0 otherwise, for all X and Y, and for X other than 15 register  *)
(* X holds (VX + VY) mod 256.                                              *)
C8_AddCarry ==
  IsAlu(4) =>
    /\ v_reg[15] = (IF prev.v_reg[Hex2] + prev.v_reg[Hex3] > 255 THEN 1 ELSE 0)
    /\ Hex2 # 15 => v_reg[Hex2] = (prev.v_reg[Hex2] + prev.v_reg[Hex3]) % 256

\* C8 as stated: register X holds the sum for every X, 15 included.
C8_AddCarryAllX ==
  IsAlu(4) =>
    /\ v_reg[15] = (IF prev.v_reg[Hex2] + prev.v_reg[Hex3] > 255 THEN 1 ELSE 0)
    /\ v_reg[Hex2] = (prev.v_reg[Hex2] + prev.v_reg[Hex3]) % 256

\* VX = 255, VY = 1: the sum wraps to 0 and the flag is 1.
C8_Witness ==
  /\ IsAlu(4) /\ Hex2 = 3 /\ Hex3 = 4
  /\ prev.v_reg[3] = 255 /\ prev.v_reg[4] = 1
  /\ v_reg[3] = 0 /\ v_reg[15] = 1

--------------------------------------------------------------------------
(* C6: after FX33 with I + 2 inside memory, memory[I], memory[I+1] and     *)
(* memory[I+2] hold the hundreds, tens and ones digits of register X:      *)
(* v div 100, (v div 10) mod 10, v mod 10.  The code stores v div 10 as    *)
(* the tens.                                                               *)
IsBcd == Ran /\ Hex1 = 15 /\ Hex3 = 3 /\ Hex4 = 3

C6_BcdClaim ==
  (IsBcd /\ prev.i_reg + 2 < RAM_SIZE) =>
    LET v == prev.v_reg[Hex2]
    IN /\ RamRead(ram, prev.i_reg) = v \div 100
       /\ RamRead(ram, prev.i_reg + 1) = (v \div 10) % 10
       /\ RamRead(ram, prev.i_reg + 2) = v % 10

\* What the code stores: the tens byte is v div 10, up to 25.
C6_CodeBehaviour ==
  (IsBcd /\ prev.i_reg + 2 < RAM_SIZE) =>
    LET v == prev.v_reg[Hex2]
    IN /\ RamRead(ram, prev.i_reg) = v \div 100
       /\ RamRead(ram, prev.i_reg + 1) = v \div 10
       /\ RamRead(ram, prev.i_reg + 2) = v % 10

--------------------------------------------------------------------------
(* C9: the same DXYN run twice in succession (coordinate registers other   *)
(* than 15) restores the framebuffer to what it was before the first draw; *)
(* after each draw the flag register is 1 exactly when that draw turned a  *)
(* lit pixel off, so on a clear target the first draw gives 0 and the      *)
(* second draw of a sprite with a set bit gives 1.  Here prev is the       *)
(* emulator before the first draw, the unprimed state the one between the  *)
(* draws and the primed state the one after the second.                    *)
IsDrawOp(op) == op \div 4096 = 13
TurnedOff(before, after) == IF before \ after # {} THEN 1 ELSE 0

C9_DrawTwice ==
  [][ ( /\ last.call = "tick" /\ IsDrawOp(last.op) /\ fault = NoFault
        /\ last'.call = "tick" /\ last'.op = last.op /\ fault' = NoFault
        /\ Hex2 # 15 /\ Hex3 # 15
        /\ i_reg' = prev.i_reg
        /\ \A r \in 0 .. Hex4 - 1 :
             RamRead(ram', i_reg' + r) = RamRead(prev.ram, prev.i_reg + r) )
      => LET target == (prev.screen \ screen) \cup (screen \ prev.screen)
         IN /\ screen' = prev.screen
            /\ v_reg[15] = TurnedOff(prev.screen, screen)
            /\ v_reg'[15] = TurnedOff(screen, screen')
            /\ (target \cap prev.screen = {}) =>
                  /\ v_reg[15] = 0
                  /\ target # {} => v_reg'[15] = 1
    ]_vars

\* The second draw of a pair over a lit background: it collides with its
\* first draw and leaves the background.
C9_Witness ==
  /\ Ran /\ IsDrawOp(last.op) /\ Hex2 # 15 /\ Hex3 # 15
  /\ prev.pc = 526 /\ RamRead(ram, 524) * 256 + RamRead(ram, 525) = last.op
  /\ v_reg[15] = 1
  /\ screen # {} /\ screen # prev.screen

--------------------------------------------------------------------------
(* C10: a draw wraps: for row r < N and column c < 8 a set sprite bit      *)
(* (memory[I + r], bit 7 - c) toggles exactly the pixel at column          *)
(* (vx + c) mod 64 of row (vy + r) mod 32, and no other pixel changes.     *)
SpriteBits(e, n) ==
  {rc \in (0 .. n - 1) \X (0 .. 7) :
     Bit(RamRead(e.ram, e.i_reg + rc[1]), 7 - rc[2]) = 1}

C10_DrawWraps ==
  (Ran /\ IsDrawOp(last.op)) =>
    LET vx == prev.v_reg[Hex2]
        vy == prev.v_reg[Hex3]
        hit == {((vx + rc[2]) % 64) + 64 * ((vy + rc[1]) % 32) :
                  rc \in SpriteBits(prev, Hex4)}
    IN \A p \in 0 .. 64 * 32 - 1 :
         ((p \in screen) # (p \in prev.screen)) <=> p \in hit

\* Glyph "8" drawn at vx = 63, vy = 0 on a clear screen: its first column
\* is at x = 63 and its second at x = 0 of row 0, and its last row is row 4.
C10_Witness ==
  /\ Ran /\ IsDrawOp(last.op) /\ Hex4 = 5
  /\ prev.v_reg[Hex2] = 63 /\ prev.v_reg[Hex3] = 0 /\ prev.screen = {}
  /\ 63 \in screen /\ 0 \in screen /\ 64 \notin screen
  /\ 4 * 64 + 63 \in screen

--------------------------------------------------------------------------
(* C11: a step on a word that matches none of the defined opcode patterns  *)
(* ends in a fault that carries the raw word, with nothing but the fetch   *)
(* done (pc is 2 past the word): it is not a no-operation, and no step is  *)
(* taken from the faulted machine.  A word that matches a pattern never    *)
(* ends in that fault.  Recognized is the opcode table of the              *)
(* specification.                                                          *)
Recognized(op) ==
  LET h1 == (op \div 4096) % 16
      h4 == op % 16
      low == op % 256
  IN \/ op \in {0, 224, 238}
     \/ h1 \in {1, 2, 3, 4, 6, 7, 10, 11, 12, 13}
     \/ h1 \in {5, 9} /\ h4 = 0
     \/ h1 = 8 /\ h4 \in {0, 1, 2, 3, 4, 5, 6, 7, 14}
     \/ h1 = 14 /\ low \in {158, 161}
     \/ h1 = 15 /\ low \in {7, 10, 21, 24, 30, 41, 51, 85, 101}

C11_UnrecognizedIsFatal ==
  /\ (Ticked /\ ~Recognized(last.op)) =>
        /\ fault.kind = "not implemented" /\ fault.word = last.op
        /\ Machine = [prev EXCEPT !.pc = prev.pc + 2, !.fault = fault]
        /\ ~ENABLED Tick
  /\ (Ticked /\ Recognized(last.op)) => fault.kind # "not implemented"
  /\ fault.kind = "not implemented" => (Ticked /\ last.op = fault.word)

\* The word 0x870F (8XYn with n = 15) run with V0 = 5 and V7 = 200.
C11_Witness ==
  /\ Ticked /\ last.op = 34575
  /\ fault = Unimplemented(34575)
  /\ prev.v_reg[0] = 5 /\ prev.v_reg[7] = 200 /\ pc = 520

--------------------------------------------------------------------------
(* C12: every operation is a function of the emulator and its arguments,   *)
(* and a step draws a random byte in CXNN only.  A step on any other word  *)
(* gives the same emulator whatever byte random() would have returned      *)
(* (for one build), so two emulators driven by the same calls and the same *)
(* draws stay identical; a CXNN step changes pc and register X only, and   *)
(* register X holds the draw AND NN: no bit outside NN is set.             *)
Masked(r, nn) ==
  CHOOSE v \in 0 .. 255 : \A i \in 0 .. 7 : Bit(v, i) = 1 <=> (Bit(r, i) = 1 /\ Bit(nn, i) = 1)

--------------------------------------------------------------------------
(* C13, as amended: a glyph byte (an address below 0x50) is changed only   *)
(* by a store instruction aimed at it: FX33 with I <= a <= I + 2 or FX55   *)
(* with I <= a <= I + X.  load, keypress, tick_timers and every other      *)
(* instruction leave the 80 bytes as they were, and new and reset write    *)
(* the fixed table.                                                        *)
Glyphs(e) == [a \in 0 .. FONTSET_SIZE - 1 |-> RamRead(e.ram, a)]
GlyphTable == [a \in 0 .. FONTSET_SIZE - 1 |-> FONTSET[a + 1]]
StoresAt(a) ==
  /\ Ticked /\ Hex1 = 15
  /\ \/ Hex3 = 3 /\ Hex4 = 3 /\ a \in prev.i_reg .. prev.i_reg + 2
     \/ Hex3 = 5 /\ Hex4 = 5 /\ a \in prev.i_reg .. prev.i_reg + Hex2

C13_GlyphsKept ==
  /\ last.call \in {"new", "reset"} => Glyphs(Machine) = GlyphTable
  /\ last.call \notin {"new", "reset"} =>
        \A a \in 0 .. FONTSET_SIZE - 1 :
          Glyphs(Machine)[a] # Glyphs(prev)[a] => StoresAt(a)

\* C13 as stated: the 80 bytes equal the glyph table in every state.
C13_GlyphsNeverMutated == Glyphs(Machine) = GlyphTable

\* FX33 of 157 at I = 78: the last two glyph bytes become 1 and 15, and a
\* later timer tick, key event or step leaves them so.
C13_Witness ==
  /\ last.call \in {"tick_timers", "keypress", "tick"}
  /\ ~(Ticked /\ Hex1 = 15)
  /\ Glyphs(prev)[78] = 1 /\ Glyphs(prev)[79] = 15
  /\ Glyphs(Machine) = Glyphs(prev)
  /\ RamRead(ram, 80) = 7

--------------------------------------------------------------------------
(* C14: a load of at most 3584 bytes sets memory[0x200 + i] to bytes[i]    *)
(* for every i below the length and changes nothing else: the rest of      *)
(* memory, pc, the registers, the index register, the stack and its        *)
(* pointer, the keys, the timers and the framebuffer are as before.  A     *)
(* load of more than 3584 bytes faults and has written no byte.            *)
C14_LoadFrame ==
  last.call = "load" =>
    LET n == Len(last.arg)
    IN IF n <= 3584
       THEN /\ fault = NoFault
            /\ \A a \in 0 .. RAM_SIZE - 1 :
                  RamRead(ram, a) = IF a >= 512 /\ a < 512 + n
                                    THEN last.arg[a - 512 + 1]
                                    ELSE RamRead(prev.ram, a)
            /\ Machine = [prev EXCEPT !.ram = ram]
       ELSE /\ fault # NoFault
            /\ Machine = [prev EXCEPT !.fault = fault]

\* The 1-byte image loaded over the 3584-byte one loaded over the program,
\* in the middle of the program's run: the second byte of the area and the
\* byte at the top of memory stay, and so do pc, the stack, the timer, the
\* key and the glyph on the screen.
C14_Witness ==
  /\ last.call = "load" /\ Len(last.arg) = 1
  /\ RamRead(ram, 512) = 7 /\ RamRead(prev.ram, 512) = 18
  /\ RamRead(ram, 513) = 0 /\ RamRead(prev.ram, 4095) = 255 /\ RamRead(ram, 4095) = 255
  /\ pc = 524 /\ sp = 1 /\ stack[0] = 522 /\ i_reg = 5 /\ v_reg[0] = 3
  /\ delay_t > 0 /\ keys[1] /\ screen # {}

\* A refused load: 3585 bytes over a loaded program.
C14_Refused ==
  /\ last.call = "load" /\ Len(last.arg) = 3585
  /\ fault = IndexFault /\ RamRead(ram, 4095) = 0 /\ RamRead(ram, 512) = 96 /\ sp = 1

--------------------------------------------------------------------------
(* C15: the framebuffer is changed by 00E0, by DXYN and by reset only:     *)
(* every other instruction step, tick_timers, keypress and load leave all  *)
(* 64 x 32 pixels as they were; after 00E0 (and after reset) every pixel   *)
(* is off.                                                                 *)
IsCls == Ticked /\ last.op = 224
IsDraw == Ticked /\ Hex1 = 13

C15_ScreenFrame ==
  /\ ~(IsCls \/ IsDraw \/ last.call = "reset") =>
        \A p \in 0 .. 64 * 32 - 1 : (p \in screen) <=> (p \in prev.screen)
  /\ (IsCls \/ last.call = "reset") => \A p \in 0 .. 64 * 32 - 1 : p \notin screen
  /\ screen \subseteq 0 .. 64 * 32 - 1

\* 00E0 on a screen that shows glyph "0" on rows 2 to 6.
C15_Witness ==
  /\ IsCls /\ fault = NoFault
  /\ 2 * 64 + 7 \in prev.screen /\ 6 * 64 + 10 \in prev.screen
  /\ screen = {}

\* A store, a key event and a timer tick that left the lit screen alone.
C15_Kept ==
  /\ screen = prev.screen /\ 2 * 64 + 7 \in screen
  /\ \/ Ran /\ last.op = 61781
     \/ last.call = "load"

--------------------------------------------------------------------------
(* C16: keypress(idx, pressed) with idx in 0..15 sets flag idx to pressed  *)
(* and changes no other flag and nothing else of the machine; no           *)
(* instruction step (EX9E, EXA1 and FX0A read the flags) and no            *)
(* tick_timers call changes a flag.                                        *)
C16_KeysFrame ==
  /\ (last.call = "keypress" /\ last.arg[1] \in 0 .. 15) =>
        /\ fault = NoFault
        /\ keys[last.arg[1]] = last.arg[2]
        /\ \A i \in 0 .. 15 : i # last.arg[1] => keys[i] = prev.keys[i]
        /\ Machine = [prev EXCEPT !.keys = keys]
  /\ last.call \in {"tick", "tick_timers"} =>
        \A i \in 0 .. 15 : keys[i] = prev.keys[i]

\* Key 2 released while key 7 is held, after the program ran FX0A.
C16_Witness ==
  /\ last.call = "keypress" /\ last.arg = << 2, FALSE >>
  /\ prev.keys[2] /\ prev.keys[7] /\ ~keys[2] /\ keys[7]
  /\ v_reg[1] = 2 /\ pc = 528 /\ screen # {}
  /\ RamRead(ram, 526) * 256 + RamRead(ram, 527) = 61706

\* FX0A that found key 2 pressed and left it pressed.
C16_Read ==
  /\ Ran /\ last.op = 61706
  /\ prev.keys[2] /\ keys[2] /\ ~keys[7] /\ pc = prev.pc + 2

--------------------------------------------------------------------------
(* C17: a step that starts at pc = p and does not fault fetches the word   *)
(* memory[p] * 256 + memory[p + 1]; afterwards pc = NNN for 1NNN and 2NNN, *)
(* pc = V0 + NNN for BNNN, pc = p + 4 for a skip (3XNN, 4XNN, 5XY0, 9XY0,  *)
(* EX9E, EXA1) exactly when its condition holds on the registers and keys  *)
(* before the step and p + 2 otherwise, pc = p for FX0A with no key        *)
(* pressed, and pc = p + 2 for every instruction that is not a jump, call, *)
(* return, skip or key wait.                                               *)
C17_PcRule ==
  Ran =>
    LET p == prev.pc
        nnn == last.op % 4096
        nn == last.op % 256
        vx == prev.v_reg[Hex2]
        vy == prev.v_reg[Hex3]
        SkipsIff(c) == pc = IF c THEN p + 4 ELSE p + 2
    IN /\ last.op = RamRead(prev.ram, p) * 256 + RamRead(prev.ram, p + 1)
       /\ CASE Hex1 \in {1, 2} -> pc = nnn
            [] Hex1 = 11 -> pc = prev.v_reg[0] + nnn
            [] Hex1 = 3 -> SkipsIff(vx = nn)
            [] Hex1 = 4 -> SkipsIff(vx # nn)
            [] Hex1 = 5 -> SkipsIff(vx = vy)
            [] Hex1 = 9 -> SkipsIff(vx # vy)
            [] Hex1 = 14 /\ nn = 158 -> SkipsIff(prev.keys[vx])
            [] Hex1 = 14 /\ nn = 161 -> SkipsIff(~prev.keys[vx])
            [] Hex1 = 15 /\ nn = 10 -> NoKeyPressed(prev.keys) => pc = p
            [] last.op = 238 -> TRUE
            [] OTHER -> pc = p + 2

\* E19E with V1 = 2, key 2 pressed and key 7 released: the skip is taken.
C17_Witness ==
  /\ Ran /\ last.op = 57758
  /\ prev.v_reg[1] = 2 /\ prev.keys[2] /\ ~prev.keys[7]
  /\ prev.pc = 526 /\ pc = 530

\* B20B with V0 = 7: pc is 0x20B + 7.
C17_Jump ==
  /\ Ran /\ last.op = 45579 /\ prev.v_reg[0] = 7 /\ pc = 530

--------------------------------------------------------------------------
(* C18: in every state that is not faulted the stack pointer is between 0  *)
(* and 16 and equals the number of 2NNN calls minus the number of 00EE     *)
(* returns executed since the last reset.  A 2NNN with 16 calls pending    *)
(* and a 00EE with none each end in a fault: no slot of the stack is       *)
(* written, pc is not loaded (it stays 2 past the instruction), and the    *)
(* stack keeps its 16 slots.                                               *)
C18_StackPointer ==
  /\ fault = NoFault => (sp \in 0 .. 16 /\ sp = Len(calls))
  /\ DOMAIN stack = 0 .. 15
  /\ (Ticked /\ IsCall(last.op) /\ prev.sp = 16) =>
        /\ fault # NoFault
        /\ stack = prev.stack /\ pc = prev.pc + 2 /\ sp = 16
  /\ (Ticked /\ IsCall(last.op) /\ prev.sp < 16) =>
        /\ fault = NoFault
        /\ stack = [prev.stack EXCEPT ![prev.sp] = prev.pc + 2]
  /\ (Ticked /\ IsRet(last.op) /\ prev.sp = 0) =>
        /\ fault # NoFault
        /\ stack = prev.stack /\ pc = prev.pc + 2
        /\ sp \in {0, 65535}
  /\ (Ticked /\ IsRet(last.op) /\ prev.sp > 0) =>
        /\ fault = NoFault
        /\ pc = prev.stack[prev.sp - 1] /\ stack = prev.stack

\* The 17th nested call: slot 15 holds the 16th return address and stays.
C18_Witness ==
  /\ Ticked /\ IsCall(last.op) /\ prev.sp = 16 /\ Len(calls) = 16
  /\ fault = IndexFault /\ sp = 16
  /\ stack[15] = START_ADDR + 4 * 15 + 2 /\ pc = START_ADDR + 4 * 16 + 2

\* A return with an empty stack, after 16 calls and 16 returns, in the
\* build without overflow checks: the pointer wrapped and the read faulted.
C18_EmptyReturn ==
  /\ Ticked /\ IsRet(last.op) /\ prev.sp = 0 /\ prev.stack[15] # 0
  /\ fault = IndexFault /\ sp = 65535 /\ pc = START_ADDR + 4

--------------------------------------------------------------------------
(* C19: the key wait is a busy wait that the host can end.  While the      *)
(* machine sits on FX0A with no key pressed, a tick_timers call decrements *)
(* the timers as usual and the machine stays on the wait; a step taken     *)
(* with a key held completes the wait at once (register X is the lowest    *)
(* key held, pc is past the instruction); and under a host that keeps      *)
(* stepping, once a key is down at the wait the machine leaves the wait,   *)
(* unless the host has released every key again before its step.          *)
Waiting == fault = NoFault /\ NextOp \div 4096 = 15 /\ NextOp % 256 = 10

C19_KeyWaitEnds ==
  /\ [][ (Waiting /\ NoKeyPressed(keys) /\ last'.call = "tick_timers") =>
           /\ delay_t' = (IF delay_t > 0 THEN delay_t - 1 ELSE 0)
           /\ sound_t' = (IF sound_t > 0 THEN sound_t - 1 ELSE 0)
           /\ pc' = pc /\ Waiting' ]_vars
  /\ [][ (Waiting /\ ~NoKeyPressed(keys) /\ last'.call = "tick") =>
           /\ fault' = NoFault
           /\ pc' = pc + 2 /\ ~Waiting'
           /\ v_reg'[(NextOp \div 256) % 16] = LowestPressed(keys) ]_vars
  /\ (Waiting /\ ~NoKeyPressed(keys)) ~> (~Waiting \/ NoKeyPressed(keys))

\* A wait that sat through timer ticks (the delay timer, set to 3, is at 1)
\* and was completed by the first step after key 3 went down.
C19_Witness ==
  /\ IsWaitKey /\ fault = NoFault /\ Hex2 = 1
  /\ prev.pc = 516 /\ pc = 518 /\ ~Waiting
  /\ prev.keys[3] /\ ~prev.keys[0] /\ v_reg[1] = 3
  /\ delay_t = 1

--------------------------------------------------------------------------
(* C20: EX9E and EXA1 take the whole value of register X for the key: a    *)
(* value in 0..15 skips according to that key's flag (EX9E when pressed,   *)
(* EXA1 when released) and changes nothing but pc; a value of 16 or more   *)
(* ends the step in an index fault, with no skip and nothing but the fetch *)
(* done, and is not taken modulo 16.                                       *)
IsKeyTest == Ticked /\ Hex1 = 14 /\ last.op % 256 \in {158, 161}

C20_KeyTest ==
  IsKeyTest =>
    LET vx == prev.v_reg[Hex2]
        skips == IF last.op % 256 = 158 THEN prev.keys[vx] ELSE ~prev.keys[vx]
    IN IF vx <= 15
       THEN /\ fault = NoFault
            /\ Machine = [prev EXCEPT !.pc = prev.pc + (IF skips THEN 4 ELSE 2)]
       ELSE /\ fault = IndexFault
            /\ Machine = [prev EXCEPT !.pc = prev.pc + 2, !.fault = IndexFault]

\* E29E with V2 = 16 while keys 2 and 7 are held: the step faults.
C20_Witness ==
  /\ IsKeyTest /\ last.op = 58014
  /\ prev.v_reg[2] = 16 /\ prev.keys[2] /\ prev.keys[7]
  /\ fault = IndexFault /\ pc = prev.pc + 2

\* E0A1 with V0 = 7, key 7 held and key 2 released: no skip.
C20_NoSkip ==
  /\ IsKeyTest /\ last.op = 57505 /\ prev.v_reg[0] = 7
  /\ prev.keys[7] /\ ~prev.keys[2] /\ pc = prev.pc + 2 /\ fault = NoFault

==========================================================================
